---- MODULE Spec2Model ----
(***************************************************************************)
(* A model of SDO_images_collector.py: the listing fetch, the filename     *)
(* extractor, the folder organizer and the sequential image downloader.    *)
(* Python strings are TLA+ strings; str.split, str.replace, the `in` test  *)
(* and os.path.join are computed on them as CPython computes them.         *)
(***************************************************************************)
EXTENDS Integers, Sequences, FiniteSets, TLC

VARIABLES pc, image_types, date_time, url_base, listing_response,
          html_content, image_names, params, folder_path, idx, fs, fs0,
          log, gets, calls, last, exit_code

vars == <<pc, image_types, date_time, url_base, listing_response,
          html_content, image_names, params, folder_path, idx, fs, fs0,
          log, gets, calls, last, exit_code>>

-----------------------------------------------------------------------------
(* Python values *)

\* Python's None and a present value, for Optional[str] and dict.get results.
None == [some |-> FALSE, val |-> ""]
Some(v) == [some |-> TRUE, val |-> v]

\* The characters str.split() with no argument treats as separators, among
\* those a TLA+ string can hold (Python adds \v and the Unicode spaces).
Whitespace == {" ", "\t", "\n", "\r", "\f"}

Char(s, i) == SubSeq(s, i, i)

\* sub in s
Contains(sub, s) ==
  \E i \in 0..(Len(s) - Len(sub)) : SubSeq(s, i + 1, i + Len(sub)) = sub

\* s.startswith(p), s.endswith(p)
StartsWith(s, p) == Len(p) <= Len(s) /\ SubSeq(s, 1, Len(p)) = p
EndsWith(s, p) == Len(p) <= Len(s) /\ SubSeq(s, Len(s) - Len(p) + 1, Len(s)) = p

\* The least index >= from at which sub occurs in s, or 0.
IndexOf(sub, s, from) ==
  LET hits == {i \in from..(Len(s) - Len(sub) + 1) : SubSeq(s, i, i + Len(sub) - 1) = sub}
  IN IF hits = {} THEN 0 ELSE CHOOSE i \in hits : \A j \in hits : i <= j

\* The least index >= from of a whitespace (ws) or other (~ws) character, or 0.
IndexOfWs(s, from, ws) ==
  LET hits == {i \in from..Len(s) : (Char(s, i) \in Whitespace) = ws}
  IN IF hits = {} THEN 0 ELSE CHOOSE i \in hits : \A j \in hits : i <= j

\* s.split(sep) for a one-character sep: every separator ends a piece, so
\* empty pieces are kept and the result is never empty.
RECURSIVE SplitFrom(_, _, _)
SplitFrom(s, sep, from) ==
  LET i == IndexOf(sep, s, from)
  IN IF i = 0 THEN <<SubSeq(s, from, Len(s))>>
     ELSE <<SubSeq(s, from, i - 1)>> \o SplitFrom(s, sep, i + 1)

split(s, sep) == SplitFrom(s, sep, 1)

\* s.split(): runs of whitespace separate, no empty piece is produced.
RECURSIVE SplitWsFrom(_, _)
SplitWsFrom(s, from) ==
  LET b == IndexOfWs(s, from, FALSE)
      e == IndexOfWs(s, b, TRUE)
  IN IF b = 0 THEN <<>>
     ELSE IF e = 0 THEN <<SubSeq(s, b, Len(s))>>
     ELSE <<SubSeq(s, b, e - 1)>> \o SplitWsFrom(s, e + 1)

split_ws(s) == SplitWsFrom(s, 1)

\* s.replace(old, new) for a one-character old.
RECURSIVE ReplaceFrom(_, _, _, _)
ReplaceFrom(s, old, new, from) ==
  LET i == IndexOf(old, s, from)
  IN IF i = 0 THEN SubSeq(s, from, Len(s))
     ELSE SubSeq(s, from, i - 1) \o new \o ReplaceFrom(s, old, new, i + 1)

replace(s, old, new) == ReplaceFrom(s, old, new, 1)

\* seq[-1]
LastOf(seq) == seq[Len(seq)]

\* x in list
InList(x, list) == \E k \in 1..Len(list) : list[k] = x

-----------------------------------------------------------------------------
(* BeautifulSoup(html_content, "html.parser").find("pre").get_text()        *)

\* The text of a fragment with its tags (everything from "<" to the next
\* ">") dropped, as get_text() returns it.
RECURSIVE StripTags(_, _)
StripTags(s, from) ==
  LET lt == IndexOf("<", s, from)
      gt == IndexOf(">", s, lt + 1)
  IN IF lt = 0 THEN SubSeq(s, from, Len(s))
     ELSE SubSeq(s, from, lt - 1) \o (IF gt = 0 THEN "" ELSE StripTags(s, gt + 1))

\* soup.find("pre"): the first <pre> element, None when the document has none.
\* An unclosed <pre> runs to the end of the document. The documents of this
\* model hold no attribute on <pre>, no entity and no comment.
find_pre(html) ==
  LET open == IndexOf("<pre>", html, 1)
      start == open + 5
      close == IndexOf("</pre>", html, start)
  IN IF open = 0 THEN None
     ELSE Some(SubSeq(html, start, IF close = 0 THEN Len(html) ELSE close - 1))

get_text(tag) == StripTags(tag, 1)

-----------------------------------------------------------------------------
(* extract_image_names *)

\* The variant that takes the first segment, [0] for [-1].
type_token_first_segment(line) == split(split(line, ".")[1], "_")[1]

\* line.split(".")[0].split("_")[-1]
type_token(line) == LastOf(split(split(line, ".")[1], "_"))

\* The condition of the list comprehension.
line_selected(line, type_images, dt) ==
  Contains(dt, line) /\ InList(type_token(line), type_images)

\* The list comprehension over pre_text; [ok |-> FALSE] is the IndexError of
\* line.split()[0] on a selected line that holds no non-whitespace character.
RECURSIVE Comprehension(_, _, _, _)
Comprehension(pre_text, type_images, dt, k) ==
  IF k > Len(pre_text) THEN [ok |-> TRUE, names |-> <<>>]
  ELSE LET line == pre_text[k]
           rest == Comprehension(pre_text, type_images, dt, k + 1)
       IN IF ~line_selected(line, type_images, dt) THEN rest
          ELSE IF split_ws(line) = <<>> \/ ~rest.ok THEN [ok |-> FALSE, names |-> <<>>]
          ELSE [ok |-> TRUE, names |-> <<split_ws(line)[1]>> \o rest.names]

\* extract_image_names(html_content, type_images, date_time): [ok |-> FALSE]
\* is the uncaught AttributeError of None.get_text() or the IndexError above.
extract_image_names(html, type_images, dt) ==
  LET pre == find_pre(html)
  IN IF ~pre.some THEN [ok |-> FALSE, names |-> <<>>]
     ELSE Comprehension(split(get_text(pre.val), "\n"), type_images, dt, 1)

-----------------------------------------------------------------------------
(* The filesystem: the directories that exist and the content of each file, *)
(* both keyed by normalised path.                                           *)

BASE_IMAGE_DIR == "images/imagesSDO"

NonEmptyComp(c) == c # "" /\ c # "."

Components(p) == SelectSeq(split(p, "/"), NonEmptyComp)

RECURSIVE JoinComps(_, _)
JoinComps(comps, n) ==
  IF n = 0 THEN ""
  ELSE IF n = 1 THEN comps[1]
  ELSE JoinComps(comps, n - 1) \o "/" \o comps[n]

Root(p) == IF StartsWith(p, "/") THEN "/" ELSE ""

\* The path the kernel resolves p to ("" for the empty path, which names nothing).
Norm(p) == Root(p) \o JoinComps(Components(p), Len(Components(p)))

\* The directory holding p ("" is the working directory).
Parent(p) == Root(p) \o JoinComps(Components(p), Len(Components(p)) - 1)

\* p and every directory above it, as os.makedirs creates them.
AncestorsAndSelf(p) ==
  {Root(p) \o JoinComps(Components(p), n) : n \in 1..Len(Components(p))}

EmptyFiles == [p \in {} |-> ""]

IsDir(f, q) == q = "" \/ q = "/" \/ q \in f.dirs

IsFile(f, q) == q \in DOMAIN f.files

\* os.path.exists(path)
path_exists(f, path) ==
  Norm(path) # "" /\ (Norm(path) \in f.dirs \/ IsFile(f, Norm(path)))

\* os.path.join(a, b): an absolute b replaces a.
join2(a, b) ==
  IF StartsWith(b, "/") THEN b
  ELSE IF a = "" \/ EndsWith(a, "/") THEN a \o b
  ELSE a \o "/" \o b

\* os.path.join(a, b, c)
path_join(a, b, c) == join2(join2(a, b), c)

\* A log record: logging.error / logging.info with the message up to the
\* exception text.
Error(msg) == [level |-> "ERROR", msg |-> msg]
Info(msg) == [level |-> "INFO", msg |-> msg]

-----------------------------------------------------------------------------
(* fetch_html_content *)

\* The variant without the raise_for_status call.
raises_for_status_never(status) == FALSE

\* response.raise_for_status(): HTTPError for a 4xx or 5xx status.
raises_for_status(status) == 400 <= status /\ status < 600

\* fetch_html_content(url) when requests.get answers r: the returned
\* Optional[str] and the records logged.
fetch_html_content(url, r) ==
  IF r.kind = "transport_error" \/ raises_for_status(r.status)
  THEN [content |-> None,
        log |-> <<Error("Error fetching HTML content from " \o url)>>]
  ELSE [content |-> Some(r.text), log |-> <<>>]

\* The variant that tests `is None` only.
falsy_str_none_only(v) == ~v.some

\* not html_content: None and the empty string are both falsy.
falsy_str(v) == ~v.some \/ v.val = ""

-----------------------------------------------------------------------------
(* create_folder_if_not_exists *)

\* os.makedirs(path) can succeed only for a non-empty path that does not
\* exist yet (FileExistsError) and none of whose ancestors is a file.
makedirs_possible(f, path) ==
  /\ Norm(path) # ""
  /\ ~path_exists(f, path)
  /\ \A q \in AncestorsAndSelf(path) : ~IsFile(f, q)

\* The variant that calls os.makedirs without looking.
folder_exists_check_skipped(f, path) == FALSE

\* not os.path.exists(folder_path), negated
folder_exists_check(f, path) == path_exists(f, path)

\* create_folder_if_not_exists(folder_path) on filesystem f: the outcomes the
\* operating system allows. ok = FALSE is the OSError os.makedirs raises,
\* which nothing catches.
create_folder_if_not_exists(f, path) ==
  IF folder_exists_check(f, path)
  THEN {[ok |-> TRUE, fs |-> f, log |-> <<>>]}
  ELSE {[ok |-> FALSE, fs |-> f, log |-> <<>>]}
       \cup (IF makedirs_possible(f, path)
             THEN {[ok |-> TRUE,
                    fs |-> [f EXCEPT !.dirs = @ \cup AncestorsAndSelf(path)],
                    log |-> <<Info("Created folder: " \o path)>>]}
             ELSE {})

-----------------------------------------------------------------------------
(* download_image *)

\* What file.write leaves of `content` when it fails part-way.
StrictPrefixes(content) == {SubSeq(content, 1, k) : k \in 0..(Len(content) - 1)}

\* open(file_path, "wb") can succeed only when the directory exists and the
\* path is not a directory.
open_possible(f, file_path) ==
  /\ Norm(file_path) # ""
  /\ IsDir(f, Parent(file_path))
  /\ Norm(file_path) \notin f.dirs

write_file(f, file_path, content) ==
  [f EXCEPT !.files = (Norm(file_path) :> content) @@ @]

\* download_image(url, file_path) when requests.get answers r: the outcomes
\* the filesystem allows. Both except clauses log and return.
download_image(f, url, file_path, r) ==
  IF r.kind = "transport_error" \/ raises_for_status(r.status)
  THEN {[outcome |-> "fetch_error", fs |-> f,
         log |-> <<Error("Error fetching image from " \o url)>>]}
  ELSE {[outcome |-> "save_error", fs |-> f,
         log |-> <<Error("Error saving image at " \o file_path)>>]}
       \cup (IF open_possible(f, file_path)
             THEN {[outcome |-> "save_error", fs |-> write_file(f, file_path, part),
                    log |-> <<Error("Error saving image at " \o file_path)>>] :
                       part \in StrictPrefixes(r.content)}
                  \cup {[outcome |-> "saved", fs |-> write_file(f, file_path, r.content),
                         log |-> <<Info("Image saved at " \o file_path)>>]}
             ELSE {})

-----------------------------------------------------------------------------
(* What the program meets: the user's two answers, the server's responses   *)
(* and the disk it starts on.                                               *)

\* The answers to the two input() prompts.
TypeInputs == {"HMIIC", "HMIIC HMIIF", ""}
DateInputs == {"2024-08-02 01:10", "2024-08-02", ""}

ListingOk ==
  "<html><pre><a href=\"1_HMIIC.jpg\">1_HMIIC.jpg</a> 2024-08-02 01:10 9K\n"
  \o "<a href=\"2_HMIIF.jpg\">2_HMIIF.jpg</a> 2024-08-02 01:10 9K\n"
  \o "<a href=\"3_HMIIC.jpg\">3_HMIIC.jpg</a> 2024-08-02 01:25 9K\n</pre></html>"
ListingTwice ==
  "<pre>1_HMIIC.jpg 2024-08-02 01:10\n1_HMIIC.jpg 2024-08-02 01:10\n</pre>"
ListingOther == "<pre>readme.txt 2024-08-01 00:00\n</pre>"
ListingNoPre == "<html><body>moved</body></html>"

HtmlDocs == {ListingOk, ListingTwice, ListingOther, ListingNoPre, ""}

TransportError == [kind |-> "transport_error", status |-> 0, text |-> "", content |-> ""]

\* What requests.get(url_base) can answer.
ListingResponses ==
  {TransportError}
  \cup {[kind |-> "http", status |-> st, text |-> "", content |-> ""] : st \in {404, 500}}
  \cup {[kind |-> "http", status |-> 200, text |-> doc, content |-> ""] : doc \in HtmlDocs}

\* What requests.get(image_url) can answer.
ImageResponses ==
  {TransportError}
  \cup {[kind |-> "http", status |-> 404, text |-> "", content |-> ""]}
  \cup {[kind |-> "http", status |-> 200, text |-> "", content |-> b] : b \in {"0123456789", ""}}

DestFolder == "images/imagesSDO/2024-08-02/01-10"

\* The disk before the run: empty, the destination folder already there, or
\* there with an earlier download in it.
FsInits ==
  {[dirs |-> {}, files |-> EmptyFiles],
   [dirs |-> AncestorsAndSelf(DestFolder), files |-> EmptyFiles],
   [dirs |-> AncestorsAndSelf(DestFolder),
    files |-> (DestFolder \o "/1_HMIIC.jpg") :> "old"]}

NoCall == [fn |-> "none"]

NoResponse == [kind |-> "none", status |-> 0, text |-> "", content |-> ""]

NoParams ==
  [url_base |-> None, image_names |-> [some |-> FALSE, val |-> <<>>],
   base_folder |-> None, folder_name |-> None, subfolder_name |-> None]

\* The state before anything has run, but for pc, the inputs and the disk.
Blank ==
  /\ url_base = ""
  /\ listing_response = NoResponse
  /\ image_names = <<>>
  /\ folder_path = ""
  /\ idx = 0
  /\ log = <<>>
  /\ gets = <<>>
  /\ calls = <<>>
  /\ last = NoCall
  /\ exit_code = -1

-----------------------------------------------------------------------------
(* main *)

Init ==
  /\ pc = "main"
  /\ image_types = <<>>
  /\ date_time = ""
  /\ html_content = None
  /\ params = NoParams
  /\ fs \in FsInits
  /\ fs0 = fs
  /\ Blank

\* An exception nothing catches: the interpreter prints the traceback and the
\* process exits with status 1.
Crash ==
  /\ pc' = "crashed"
  /\ exit_code' = 1

\* main returns: the process exits with status 0.
Return ==
  /\ pc' = "done"
  /\ exit_code' = 0

\* Lines 96-104: the two prompts, date_time_parser and url_base.
\* date_time.split()[0] is an IndexError when the answer holds no word.
MainInput ==
  /\ pc = "main"
  /\ \E ti \in TypeInputs, di \in DateInputs :
       /\ image_types' = split_ws(ti)
       /\ date_time' = di
       /\ IF split_ws(di) = <<>>
          THEN Crash /\ UNCHANGED url_base
          ELSE /\ url_base' = "https://sdo.gsfc.nasa.gov/assets/img/browse/"
                                 \o replace(split_ws(di)[1], "-", "/")
               /\ pc' = "fetch"
               /\ UNCHANGED exit_code
  /\ UNCHANGED <<listing_response, html_content, image_names, params,
                 folder_path, idx, fs, fs0, log, gets, calls, last>>

\* Lines 106-108: the listing fetch and main's test of its result.
MainFetch ==
  /\ pc = "fetch"
  /\ \E r \in ListingResponses :
       LET got == fetch_html_content(url_base, r)
       IN /\ listing_response' = r
          /\ gets' = Append(gets, url_base)
          /\ calls' = Append(calls, "fetch_html_content")
          /\ html_content' = got.content
          /\ log' = log \o got.log
          /\ IF falsy_str(got.content)
             THEN Return
             ELSE pc' = "extract" /\ UNCHANGED exit_code
  /\ UNCHANGED <<image_types, date_time, url_base, image_names, params,
                 folder_path, idx, fs, fs0, last>>

\* The variant that keeps the colon.
subfolder_name_with_colon(dt) == split_ws(dt)[2]

\* date_time.split()[1].replace(":", "-")
subfolder_name(dt) == replace(split_ws(dt)[2], ":", "-")

\* The variant without the early return.
no_images_never(names) == FALSE

\* not image_names
no_images(names) == names = <<>>

\* Lines 110-122: the extractor, main's test of its result and the parameter
\* dictionary. date_time.split()[1] is an IndexError when the answer holds
\* one word only.
MainExtract ==
  /\ pc = "extract"
  /\ calls' = Append(calls, "extract_image_names")
  /\ LET got == extract_image_names(html_content.val, image_types, date_time)
     IN IF ~got.ok
        THEN Crash /\ UNCHANGED <<image_names, params, log>>
        ELSE /\ image_names' = got.names
             /\ IF no_images(got.names)
                THEN /\ log' = Append(log, Info("No images found"))
                     /\ Return
                     /\ UNCHANGED params
                ELSE IF Len(split_ws(date_time)) < 2
                THEN Crash /\ UNCHANGED <<params, log>>
                ELSE /\ params' =
                          [url_base |-> Some(url_base),
                           image_names |-> [some |-> TRUE, val |-> got.names],
                           base_folder |-> Some(BASE_IMAGE_DIR),
                           folder_name |-> Some(split_ws(date_time)[1]),
                           subfolder_name |-> Some(subfolder_name(date_time))]
                     /\ pc' = "download_images"
                     /\ UNCHANGED <<log, exit_code>>
  /\ UNCHANGED <<image_types, date_time, url_base, listing_response,
                 html_content, folder_path, idx, fs, fs0, gets, last>>

\* all([url_base, image_names, folder_path])
all_present(u, names, path) == u.some /\ u.val # "" /\ names # <<>> /\ path # ""

\* Lines 65-77: download_images up to its loop. os.path.join raises a
\* TypeError for a None component, before the parameters are validated;
\* the OSError of os.makedirs is not caught either.
DownloadImagesEntry ==
  /\ pc = "download_images"
  /\ calls' = Append(calls, "download_images")
  /\ LET names == IF params.image_names.some THEN params.image_names.val ELSE <<>>
     IN IF ~(params.base_folder.some /\ params.folder_name.some /\ params.subfolder_name.some)
        THEN Crash /\ UNCHANGED <<folder_path, idx, fs, log>>
        ELSE LET path == path_join(params.base_folder.val, params.folder_name.val,
                                   params.subfolder_name.val)
             IN /\ folder_path' = path
                /\ IF ~all_present(params.url_base, names, path)
                   THEN /\ log' = Append(log, Error("Error: Missing required parameters."))
                        /\ pc' = "returned"
                        /\ UNCHANGED <<idx, fs, exit_code>>
                   ELSE \E made \in create_folder_if_not_exists(fs, path) :
                          /\ fs' = made.fs
                          /\ log' = log \o made.log
                          /\ IF made.ok
                             THEN pc' = "loop" /\ idx' = 1 /\ UNCHANGED exit_code
                             ELSE Crash /\ UNCHANGED idx
  /\ UNCHANGED <<image_types, date_time, url_base, listing_response,
                 html_content, image_names, params, fs0, gets, last>>

\* The variant that leaves the loop at the first failure.
loop_next_abort_on_failure(i, n, outcome) ==
  IF i >= n \/ outcome # "saved" THEN [pc |-> "returned", idx |-> i + 1]
  ELSE [pc |-> "loop", idx |-> i + 1]

\* Where the loop goes after the iteration for index i of n.
loop_next(i, n, outcome) ==
  IF i >= n THEN [pc |-> "returned", idx |-> i + 1] ELSE [pc |-> "loop", idx |-> i + 1]

\* Lines 79-82: one iteration of the loop of download_images.
DownloadImageStep ==
  /\ pc = "loop"
  /\ LET names == params.image_names.val
         name == names[idx]
         image_url == params.url_base.val \o "/" \o name
         file_path == join2(folder_path, name)
     IN \E r \in ImageResponses :
          \E done \in download_image(fs, image_url, file_path, r) :
            /\ gets' = Append(gets, image_url)
            /\ calls' = Append(calls, "download_image")
            /\ fs' = done.fs
            /\ log' = log \o done.log
            /\ last' = [fn |-> "download_image", name |-> name, url |-> image_url,
                        file_path |-> file_path, outcome |-> done.outcome,
                        content |-> r.content]
            /\ pc' = loop_next(idx, Len(names), done.outcome).pc
            /\ idx' = loop_next(idx, Len(names), done.outcome).idx
  /\ UNCHANGED <<image_types, date_time, url_base, listing_response,
                 html_content, image_names, params, folder_path, fs0, exit_code>>

\* Lines 123-124: download_images has returned.
MainFinish ==
  /\ pc = "returned"
  /\ log' = Append(log, Info("Execution completed"))
  /\ Return
  /\ UNCHANGED <<image_types, date_time, url_base, listing_response,
                 html_content, image_names, params, folder_path, idx, fs, fs0,
                 gets, calls, last>>

Next ==
  \/ MainInput
  \/ MainFetch
  \/ MainExtract
  \/ DownloadImagesEntry
  \/ DownloadImageStep
  \/ MainFinish

Spec == Init /\ [][Next]_vars

-----------------------------------------------------------------------------
(* extract_image_names called on its own *)

MaxLen == 4
MaxLines == 3

\* A type character, a timestamp character and the four characters the
\* extractor treats specially.
Alphabet == {"a", "d", "_", ".", " ", "\n"}

RECURSIVE StringsUpTo(_)
StringsUpTo(n) ==
  IF n = 0 THEN {""}
  ELSE LET shorter == StringsUpTo(n - 1)
       IN shorter \cup {t \o c : t \in {u \in shorter : Len(u) = n - 1}, c \in Alphabet}

SampleLines ==
  {"HMIIC_2024-08-02 01:10.jpg extra",
   "HMIIF_2024-08-02 01:10.jpg extra",
   "20240802_011000_512_HMIIC.jpg 2024-08-02 01:10 extra",
   "20240802_011000_512_HMIIF.jpg 2024-08-02 01:10 extra"}

\* "\n".join(lines)
RECURSIVE JoinLines(_, _)
JoinLines(lines, n) ==
  IF n = 0 THEN ""
  ELSE IF n = 1 THEN lines[1]
  ELSE JoinLines(lines, n - 1) \o "\n" \o lines[n]

SampleTexts ==
  UNION {{JoinLines(ls, n) : ls \in [1..n -> SampleLines]} : n \in 0..MaxLines}

\* The inputs of the call: every short text over Alphabet with one-letter
\* tokens, and the listings made of SampleLines with the real ones.
ExtractInputs ==
  {[text |-> t, type_images |-> ty, date_time |-> "d"] :
      t \in StringsUpTo(MaxLen), ty \in {<<"a">>, <<"d", "a">>}}
  \cup {[text |-> t, type_images |-> <<"HMIIC">>, date_time |-> "2024-08-02 01:10"] :
      t \in SampleTexts}

InitExtract ==
  /\ pc = "extract_image_names"
  /\ \E in \in ExtractInputs :
       /\ html_content = Some("<pre>" \o in.text \o "</pre>")
       /\ image_types = in.type_images
       /\ date_time = in.date_time
  /\ params = NoParams
  /\ fs = [dirs |-> {}, files |-> EmptyFiles]
  /\ fs0 = fs
  /\ Blank

\* extract_image_names(html_content, image_types, date_time), lines 27-39.
ExtractCall ==
  /\ pc = "extract_image_names"
  /\ calls' = Append(calls, "extract_image_names")
  /\ LET got == extract_image_names(html_content.val, image_types, date_time)
     IN /\ image_names' = got.names
        /\ IF got.ok THEN pc' = "returned" /\ UNCHANGED exit_code ELSE Crash
  /\ UNCHANGED <<image_types, date_time, url_base, listing_response,
                 html_content, params, folder_path, idx, fs, fs0, log, gets, last>>

SpecExtract == InitExtract /\ [][ExtractCall]_vars

-----------------------------------------------------------------------------
(* download_images called on its own *)

ParamSets ==
  [url_base : {None, Some(""), Some("https://sdo.gsfc.nasa.gov/assets/img/browse/2024/08/02")},
   image_names : {[some |-> FALSE, val |-> <<>>], [some |-> TRUE, val |-> <<>>],
                  [some |-> TRUE, val |-> <<"1_HMIIC.jpg">>]},
   base_folder : {None, Some(""), Some(BASE_IMAGE_DIR)},
   folder_name : {None, Some(""), Some("2024-08-02")},
   subfolder_name : {None, Some(""), Some("01-10")}]

InitDownload ==
  /\ pc = "download_images"
  /\ params \in ParamSets
  /\ image_types = <<>>
  /\ date_time = ""
  /\ html_content = None
  /\ fs \in FsInits
  /\ fs0 = fs
  /\ Blank

NextDownload ==
  \/ DownloadImagesEntry
  \/ DownloadImageStep

SpecDownload == InitDownload /\ [][NextDownload]_vars

-----------------------------------------------------------------------------
(* create_folder_if_not_exists called on its own, repeatedly *)

MaxCalls == 3

FolderPaths ==
  {DestFolder, DestFolder \o "/", BASE_IMAGE_DIR, "a", ""}

FolderFsInits ==
  FsInits \cup {[dirs |-> {}, files |-> "a" :> "x"]}

InitFolder ==
  /\ pc = "create_folder_if_not_exists"
  /\ image_types = <<>>
  /\ date_time = ""
  /\ html_content = None
  /\ params = NoParams
  /\ fs \in FolderFsInits
  /\ fs0 = fs
  /\ Blank

\* create_folder_if_not_exists(path), lines 42-46. `last` keeps the call, the
\* filesystem it found and how the call before it went.
CreateFolderCall ==
  /\ pc = "create_folder_if_not_exists"
  /\ Len(calls) < MaxCalls
  /\ \E path \in FolderPaths :
       \E made \in create_folder_if_not_exists(fs, path) :
         /\ calls' = Append(calls, "create_folder_if_not_exists")
         /\ fs' = made.fs
         /\ log' = log \o made.log
         /\ last' = [fn |-> "create_folder_if_not_exists", path |-> path,
                     ok |-> made.ok, before |-> fs, logged |-> made.log,
                     repeats |-> /\ last.fn = "create_folder_if_not_exists"
                                 /\ last.path = path
                                 /\ last.ok]
  /\ UNCHANGED <<pc, image_types, date_time, url_base, listing_response,
                 html_content, image_names, params, folder_path, idx, fs0,
                 gets, exit_code>>

SpecFolder == InitFolder /\ [][CreateFolderCall]_vars

-----------------------------------------------------------------------------
(* The listing as the specification describes it, stated without the        *)
(* extractor's own operators.                                               *)

\* The text inside the <pre> block of a document InitExtract builds.
ListingText == SubSeq(html_content.val, 6, Len(html_content.val) - 6)

\* Where the lines of the listing start: at 1 and after every newline.
LineStarts ==
  {1} \cup {i + 1 : i \in {j \in 1..Len(ListingText) : Char(ListingText, j) = "\n"}}

\* The line starting at b: up to the next newline, or the end of the text.
LineAt(b) ==
  LET ends == {e \in (b - 1)..Len(ListingText) :
                 /\ \A j \in b..e : Char(ListingText, j) # "\n"
                 /\ (e = Len(ListingText) \/ Char(ListingText, e + 1) = "\n")}
  IN SubSeq(ListingText, b, CHOOSE e \in ends : TRUE)

HasLine(line) == \E b \in LineStarts : LineAt(b) = line

IsBlank(line) == \A j \in 1..Len(line) : Char(line, j) \in {" ", "\n"}

\* The first column of a line that is not blank: its first run of characters
\* other than white space.
FirstColumn(line) ==
  LET b == CHOOSE i \in 1..Len(line) :
             /\ Char(line, i) \notin {" ", "\n"}
             /\ \A j \in 1..(i - 1) : Char(line, j) \in {" ", "\n"}
      e == CHOOSE i \in b..Len(line) :
             /\ \A j \in b..i : Char(line, j) \notin {" ", "\n"}
             /\ (i = Len(line) \/ Char(line, i + 1) \in {" ", "\n"})
  IN SubSeq(line, b, e)

\* The longest prefix of s that holds no c, and the longest suffix that holds none.
PrefixWithout(s, c) ==
  SubSeq(s, 1, CHOOSE n \in 0..Len(s) :
                 /\ \A j \in 1..n : Char(s, j) # c
                 /\ (n = Len(s) \/ Char(s, n + 1) = c))
SuffixWithout(s, c) ==
  SubSeq(s, CHOOSE b \in 1..(Len(s) + 1) :
              /\ \A j \in b..Len(s) : Char(s, j) # c
              /\ (b = 1 \/ Char(s, b - 1) = c), Len(s))

\* The type token of a filename: the extension dropped at the first ".",
\* then the last "_"-delimited segment.
TypeOfFilename(name) == SuffixWithout(PrefixWithout(name, "."), "_")

\* The lines the specification selects: the timestamp is a substring of the
\* line and the filename's type token is requested.
SpecSelected(b) ==
  /\ Contains(date_time, LineAt(b))
  /\ ~IsBlank(LineAt(b))
  /\ \E k \in 1..Len(image_types) :
       image_types[k] = TypeOfFilename(FirstColumn(LineAt(b)))

\* C1: for every listing text, extract_image_names returns exactly the
\* first-column filenames of the lines that contain the timestamp and whose
\* filename's type token is requested, one per line, in document order.
C1_ExtractorSelectsByFilenameType ==
  pc = "returned" =>
    LET chosen == {b \in LineStarts : SpecSelected(b)}
    IN /\ Len(image_names) = Cardinality(chosen)
       /\ \A b \in chosen :
            image_names[Cardinality({c \in chosen : c <= b})] = FirstColumn(LineAt(b))

C2Line == "HMIIC_2024-08-02 01:10.jpg extra"
C2Case ==
  /\ pc = "returned"
  /\ image_types = <<"HMIIC">>
  /\ date_time = "2024-08-02 01:10"
  /\ HasLine(C2Line)

\* C2 as stated: with types {"HMIIC"} and timestamp "2024-08-02 01:10", the
\* line "HMIIC_2024-08-02 01:10.jpg extra" yields the filename
\* "HMIIC_2024-08-02 01:10.jpg", and the HMIIF line yields nothing.
C2_ExampleLineSelected ==
  C2Case =>
    /\ InList("HMIIC_2024-08-02 01:10.jpg", image_names)
    /\ ~InList("HMIIF_2024-08-02 01:10.jpg", image_names)

\* C2 amended: in that case the extractor returns nothing for the line
\* "HMIIC_2024-08-02 01:10.jpg extra" (the segment after its last "_" and
\* before its first "." is "2024-08-02 01:10") nor for the HMIIF line; what it
\* returns is "20240802_011000_512_HMIIC.jpg", once for every line
\* "20240802_011000_512_HMIIC.jpg 2024-08-02 01:10 extra" of the listing.
C2_ExampleLineNotSelected ==
  C2Case =>
    /\ \A k \in 1..Len(image_names) : image_names[k] = "20240802_011000_512_HMIIC.jpg"
    /\ Len(image_names) =
         Cardinality({b \in LineStarts :
                        LineAt(b) = "20240802_011000_512_HMIIC.jpg 2024-08-02 01:10 extra"})

C2_Witness ==
  /\ C2Case
  /\ HasLine("HMIIF_2024-08-02 01:10.jpg extra")
  /\ HasLine("20240802_011000_512_HMIIC.jpg 2024-08-02 01:10 extra")
  /\ image_names = <<"20240802_011000_512_HMIIC.jpg">>

-----------------------------------------------------------------------------
(* download_images and its parameters *)

Called(fn) == \E k \in 1..Len(calls) : calls[k] = fn

Logged(entry) == \E k \in 1..Len(log) : log[k] = entry

Absent(v) == ~v.some \/ v.val = ""

\* C3: when download_images is called with the base URL, the filename list
\* or a folder-path component missing or empty, it logs an error and returns
\* normally, with no HTTP GET, no folder created and no file written.
C3_MissingParameterLogsAndReturns ==
  ( /\ Called("download_images")
    /\ \/ Absent(params.url_base)
       \/ ~params.image_names.some
       \/ params.image_names.val = <<>>
       \/ Absent(params.base_folder)
       \/ Absent(params.folder_name)
       \/ Absent(params.subfolder_name) )
  => /\ pc = "returned"
     /\ log = <<Error("Error: Missing required parameters.")>>
     /\ gets = <<>>
     /\ fs = fs0

-----------------------------------------------------------------------------
(* main *)

\* The URL and the destination of the k-th selected filename.
ImageUrl(k) == url_base \o "/" \o image_names[k]
ImagePath(k) == folder_path \o "/" \o image_names[k]

\* C4: every selected filename gets exactly one GET, in listing order,
\* whatever happened to the filenames before it; each attempt is logged, and
\* the loop ends only after the last filename.
C4_OneGetPerFilenameInOrder ==
  idx >= 1 =>
    /\ pc \in {"loop", "returned", "done"}
    /\ Len(gets) = idx
    /\ \A k \in 1..(idx - 1) :
         /\ gets[k + 1] = ImageUrl(k)
         /\ \/ Logged(Info("Image saved at " \o ImagePath(k)))
            \/ Logged(Error("Error fetching image from " \o ImageUrl(k)))
            \/ Logged(Error("Error saving image at " \o ImagePath(k)))
    /\ (pc = "loop" => idx <= Len(image_names))
    /\ (pc \in {"returned", "done"} => idx = Len(image_names) + 1)

C4_Witness ==
  /\ pc = "done"
  /\ Len(image_names) = 2
  /\ Logged(Error("Error fetching image from " \o ImageUrl(1)))
  /\ Logged(Info("Image saved at " \o ImagePath(2)))
  /\ gets = <<url_base, ImageUrl(1), ImageUrl(2)>>

ListingFailed ==
  \/ listing_response.kind = "transport_error"
  \/ listing_response.kind = "http" /\ listing_response.status \in 400..599

\* C5: if the listing GET fails (transport failure or a 4xx/5xx status),
\* fetch_html_content logs an error and returns no content, and main ends
\* with no second listing GET, no call of the extractor, no folder created
\* and no image GET.
C5_ListingFailureAborts ==
  ListingFailed =>
    /\ html_content = None
    /\ log = <<Error("Error fetching HTML content from " \o url_base)>>
    /\ pc = "done"
    /\ gets = <<url_base>>
    /\ calls = <<"fetch_html_content">>
    /\ fs = fs0

C5_Witness ==
  /\ listing_response.kind = "http"
  /\ listing_response.status = 500
  /\ pc = "done"

\* C6: if extract_image_names returns an empty sequence, download_images is
\* never invoked: no folder is created, no image GET is issued, and the run
\* ends normally after the informational log.
C6_EmptyResultSkipsDownload ==
  (Called("extract_image_names") /\ pc # "crashed" /\ image_names = <<>>) =>
    /\ pc = "done"
    /\ exit_code = 0
    /\ ~Called("download_images")
    /\ fs = fs0
    /\ gets = <<url_base>>
    /\ log = <<Info("No images found")>>

C6_Witness ==
  /\ Called("extract_image_names")
  /\ image_names = <<>>
  /\ pc = "done"
  /\ image_types = <<"HMIIC">>

\* C7: every run of main ends with exit status 0.
C7_ExitStatusZero ==
  pc \in {"done", "crashed"} => exit_code = 0

\* The timestamp has the form YYYY-MM-DD HH:MM.
WellFormedTimestamp ==
  /\ Len(date_time) = 16
  /\ Char(date_time, 5) = "-"
  /\ Char(date_time, 8) = "-"
  /\ Char(date_time, 11) = " "
  /\ Char(date_time, 14) = ":"

\* images/imagesSDO/<YYYY-MM-DD>/<HH-MM>/<name>
DestinationOf(name) ==
  "images/imagesSDO/" \o SubSeq(date_time, 1, 10) \o "/" \o SubSeq(date_time, 12, 13)
     \o "-" \o SubSeq(date_time, 15, 16) \o "/" \o name

Saved == last.fn = "download_image" /\ last.outcome = "saved"

\* C8: after download_image succeeds for a selected filename f in a run
\* with timestamp YYYY-MM-DD HH:MM, the file images/imagesSDO/<YYYY-MM-DD>/
\* <HH-MM>/f exists and holds exactly the bytes of the response body.
C8_SavedFileHoldsBody ==
  (Saved /\ WellFormedTimestamp) =>
    /\ DestinationOf(last.name) \in DOMAIN fs.files
    /\ fs.files[DestinationOf(last.name)] = last.content

C8_Witness ==
  /\ Saved
  /\ WellFormedTimestamp
  /\ last.content = "0123456789"
  /\ DestinationOf(last.name) \in DOMAIN fs0.files
  /\ fs0.files[DestinationOf(last.name)] = "old"

\* C10: if the listing GET succeeds with an empty body, main returns without
\* calling the extractor, creating a folder or downloading anything, and
\* without any log line.
C10_EmptyListingSilentReturn ==
  ( /\ listing_response.kind = "http"
    /\ listing_response.status = 200
    /\ listing_response.text = "" )
  => /\ pc = "done"
     /\ exit_code = 0
     /\ log = <<>>
     /\ calls = <<"fetch_html_content">>
     /\ gets = <<url_base>>
     /\ fs = fs0

C10_Witness ==
  /\ listing_response.kind = "http"
  /\ listing_response.status = 200
  /\ listing_response.text = ""
  /\ pc = "done"

-----------------------------------------------------------------------------
(* create_folder_if_not_exists *)

\* C9: a second call of create_folder_if_not_exists with the path of a call
\* that returned, nothing else touching the filesystem in between, does not
\* fail, leaves the path existing and leaves the filesystem as it found it.
C9_FolderCreationIdempotent ==
  (last.fn = "create_folder_if_not_exists" /\ last.repeats) =>
    /\ last.ok
    /\ fs = last.before
    /\ path_exists(fs, last.path)
    /\ last.logged = <<>>

C9_Witness ==
  /\ last.fn = "create_folder_if_not_exists"
  /\ last.repeats
  /\ last.path = DestFolder
  /\ DestFolder \notin fs0.dirs
  /\ DestFolder \in fs.dirs

====
